---- MODULE Spec2Model ----
(***************************************************************************)
(* AfterHeal missed-dose detection and alert escalation                    *)
(* (scripts/notifications.js, both engine variants, over the localStorage  *)
(* store whose keys auth.js declares).                                     *)
(*                                                                         *)
(* Instants are milliseconds.  Strings the code inspects character by      *)
(* character (names, phone numbers) are sequences of one-character strings.*)
(***************************************************************************)
EXTENDS Integers, Sequences, FiniteSets, TLC

VARIABLES
    now,            \* the wall clock read by new Date()
    mode,           \* SMSGateway._mode
    pollTimer,      \* _pollTimer: the handle setInterval returned, 0 for null
    intervals,      \* the page's active interval timers: handle and the patient polled
    meds,           \* ids of the records under ah_medications
    doses,          \* ah_doses
    contacts,       \* ah_emergency_contacts
    notifications,  \* ah_notifications
    undefinedItem,  \* the localStorage item under the key "undefined"
    inflight,       \* sends suspended at await fetch(...), in dispatch order
    microtasks,     \* .then callbacks of already resolved sends, queued for the end of the turn
    nextNotifId,    \* uuid(): next fresh Notification id
    nextLogId,      \* uuid(): next fresh AlertLogEntry id
    nextContactId,  \* uuid(): next fresh EmergencyContact id
    cycles          \* history: per dose, the alert cycles fired for it so far

vars == <<now, mode, pollTimer, intervals, meds, doses, contacts, notifications, undefinedItem, inflight, microtasks,
          nextNotifId, nextLogId, nextContactId, cycles>>

----------------------------------------------------------------------------
(* Bounds of the model *)

MaxNotifId == 6
MaxLogId == 2
MaxContacts == 3
MaxContactId == 4

----------------------------------------------------------------------------
(* Configuration: notifications.js SECTION 1 *)

MISSED_THRESHOLD_MINS == 30

POLL_INTERVAL_MS == 60 * 1000

thresholdMs == MISSED_THRESHOLD_MINS * 60 * 1000

NT == [MISSED_DOSE |-> "missed_dose", SMS_SENT |-> "sms_sent",
       CAREGIVER_ALERT |-> "caregiver_alert", SYSTEM |-> "system"]

STATUS == [SIMULATED |-> "simulated", SENT |-> "sent", FAILED |-> "failed", PENDING |-> "pending"]

(* auth.js: the storage keys AH.KEYS declares.  ALERT_LOGS and             *)
(* CAREGIVER_ASSIGNMENT are not among them.                                 *)
KEYS == [USERS |-> "ah_users", SESSION |-> "ah_session", MEDICATIONS |-> "ah_medications",
         DOSES |-> "ah_doses", APPOINTMENTS |-> "ah_appointments",
         SUPPORT_LOG |-> "ah_support_log", DOCUMENTS |-> "ah_documents",
         EMERGENCY_CONTACTS |-> "ah_emergency_contacts",
         NOTIFICATIONS |-> "ah_notifications", SEEDED |-> "ah_seeded"]

(* AH.KEYS.<name> as localStorage sees it: a missing property is the value *)
(* undefined, which getItem/setItem turn into the key "undefined".          *)
StorageKey(name) == IF name \in DOMAIN KEYS THEN KEYS[name] ELSE "undefined"

----------------------------------------------------------------------------
(* Values *)

NoTime == 0 - 1          \* null where an instant is expected
NoId == "none"           \* undefined/null where an id is expected

Users == {"p1", "p2", "cg1"}                 \* ids under ah_users
PatientArgs == {"p1", "ghost"}               \* "ghost" identifies no user
CaregiverArgs == {"cg1", NoId}               \* the dropdown's values: a caregiver, or none
Modes == {"simulation", "fast2sms"}

(* The instants the clock is read at: before any dose is due; one          *)
(* millisecond before and exactly when d1 becomes THRESHOLD overdue; one    *)
(* poll later, when d1 is 31 minutes overdue and d2 one millisecond short   *)
(* of THRESHOLD; and the millisecond after, when d2 is THRESHOLD overdue    *)
Instants == {0, thresholdMs - 1, thresholdMs, thresholdMs + POLL_INTERVAL_MS,
             thresholdMs + POLL_INTERVAL_MS + 1}

ReturnValues == 0..MaxNotifId
ContactArgs == {"c2"}                        \* the contact the patient removes

ContactIdNames == <<"c1", "c2", "c3", "c4", "c5", "c6", "c7", "c8">>

PhoneMary == <<"+", "1", "-", "5", "5", "5", "-", "0", "1", "0", "1">>
PhoneRobert == <<"+", "1", "-", "5", "5", "5", "-", "0", "1", "0", "2">>
CaregiverEmail == <<"c", "g", "@", "x">>
NameMary == <<"M", "a", "r", "y">>
NameRobert == <<"R", "o", "b">>
RelDefault == <<"E", "C">>      \* 'Emergency Contact'

----------------------------------------------------------------------------
(* Sequence helpers *)

RECURSIVE SelectSeqIdx(_, _, _)
(* Positions i >= from of s, in order, with s[i].patientId = p *)
SelectSeqIdx(s, p, from) ==
    IF from > Len(s) THEN <<>>
    ELSE IF s[from].patientId = p THEN <<from>> \o SelectSeqIdx(s, p, from + 1)
    ELSE SelectSeqIdx(s, p, from + 1)

RemoveAt(s, i) == SubSeq(s, 1, i - 1) \o SubSeq(s, i + 1, Len(s))

(* Array.prototype.findIndex on ids: the first position holding id, 0 for -1 *)
FindIndex(s, id) ==
    IF \E i \in DOMAIN s : s[i].id = id
    THEN CHOOSE i \in DOMAIN s : s[i].id = id /\ \A j \in 1..(i - 1) : s[j].id # id
    ELSE 0

----------------------------------------------------------------------------
(* localStorage helpers: getItem / getObj / setItem on the key "undefined" *)

AbsentItem == [kind |-> "absent", arr |-> <<>>, obj |-> {}]

(* getItem(key): JSON.parse(...) || [] : an absent item reads as [], an     *)
(* array as itself; a stored object is truthy and is returned as it is, so *)
(* the caller's array methods (unshift, findIndex, map) throw a TypeError.  *)
GetItemIsArray(item) == item.kind # "object"
GetItemArray(item) == IF item.kind = "array" THEN item.arr ELSE <<>>

(* getObj(key)[p]: an absent item reads as {}; a stored array is truthy and *)
(* is returned as it is, and has no property named by a user id.            *)
GetObjLookup(item, p) ==
    IF item.kind = "object" /\ \E pr \in item.obj : pr[1] = p
    THEN (CHOOSE pr \in item.obj : pr[1] = p)[2]
    ELSE NoId

SetItemArray(a) == [kind |-> "array", arr |-> a, obj |-> {}]
SetItemObject(o) == [kind |-> "object", arr |-> <<>>, obj |-> o]

(* StorageKey("ALERT_LOGS") and StorageKey("CAREGIVER_ASSIGNMENT") are both *)
(* "undefined": the Audit Log and the caregiver assignment are the one item *)
(* undefinedItem, as the engine reads it through getItem and getObj.        *)
AlertLogs == GetItemArray(undefinedItem)
AssignedCaregiverId(p) == GetObjLookup(undefinedItem, p)

----------------------------------------------------------------------------
(* Initial state: the seeded store before any alert has fired, with a      *)
(* second registered patient, after the doctor has removed medication m2    *)
(* (deleteMed leaves its dose d3 behind), and with a dose whose patientId   *)
(* names no user.                                                            *)

Dose(id, medId, p, t) == [id |-> id, medId |-> medId, patientId |-> p, scheduledTime |-> t, takenAt |-> NoTime]

Contact(id, p, name, relation, phone, isPrimary) ==
    [id |-> id, patientId |-> p, name |-> name, relation |-> relation, phone |-> phone,
     isPrimary |-> isPrimary, notifiedAt |-> NoTime]

InitDoses == << Dose("d1", "m1", "p1", 0),
                Dose("d2", "m1", "p1", POLL_INTERVAL_MS + 1),
                Dose("d3", "m2", "p1", 0),
                Dose("d4", "m1", "ghost", POLL_INTERVAL_MS + 1) >>

DoseIds == {"d1", "d2", "d3", "d4"}

Init ==
    /\ now = 0
    /\ mode = "simulation"
    /\ pollTimer = 0
    /\ intervals = {}
    /\ meds = {"m1"}
    /\ doses = InitDoses
    /\ contacts = << Contact("c1", "p1", NameMary, RelDefault, PhoneMary, FALSE),
                     Contact("c2", "p1", NameRobert, RelDefault, PhoneRobert, FALSE) >>
    /\ notifications = <<>>
    /\ undefinedItem = AbsentItem
    /\ inflight = <<>>
    /\ microtasks = <<>>
    /\ nextNotifId = 1
    /\ nextLogId = 1
    /\ nextContactId = 3
    /\ cycles = [d \in DoseIds |-> 0]

----------------------------------------------------------------------------
(* SECTION 3: SMSGateway.send *)

Result(ok, status, provider) == [ok |-> ok, status |-> status, provider |-> provider]

(* The arguments of one send: to, and the meta object; cb says whether the  *)
(* caller chained the contact's .then callback; nowIso is the instant the   *)
(* caller's closure captured.                                               *)
SendArgs(p, doseId, recipientId, rtype, to, cb) ==
    [patientId |-> p, doseId |-> doseId, contactId |-> recipientId, type |-> rtype,
     to |-> to, cb |-> cb, nowIso |-> now, branch |-> mode]

(* lines 177-194 *)
LogEntry(id, m, result) ==
    [id |-> id, patientId |-> m.patientId, doseId |-> m.doseId, contactId |-> m.contactId,
     contactPhone |-> m.to, type |-> m.type, deliveryStatus |-> result.status,
     provider |-> result.provider, triggeredAt |-> now, acknowledgedAt |-> NoTime]

(* A faulty audit write: the new entry replaces the log *)
AuditWriteReplaces(item, entry) == SetItemArray(<<entry>>)

(* lines 195-197: logs.unshift(logEntry) throws when the item is no array   *)
AuditThrows(item) == ~GetItemIsArray(item)

AuditWrite(item, entry) == SetItemArray(<<entry>> \o GetItemArray(item))

(* lines 121-127 and 170: the branches that reach the audit write without   *)
(* suspending: simulation, and a mode no branch handles                      *)
SyncResult(m) ==
    IF m = "simulation" THEN Result(TRUE, STATUS.SIMULATED, "simulation")
    ELSE Result(FALSE, STATUS.PENDING, m)

(* A faulty send: the provider call is waited for inside the caller's turn  *)
SendAwaited(acc, m) ==
    IF AuditThrows(acc.item) THEN acc
    ELSE [acc EXCEPT !.item = AuditWrite(@, LogEntry(acc.lid, m, Result(TRUE, STATUS.SENT, mode))),
                   !.lid = @ + 1,
                   !.micro = IF m.cb THEN Append(@, [contactId |-> m.contactId, nowIso |-> m.nowIso])
                             ELSE @]

(* send(...) as far as it runs in the caller's turn; acc carries the stores *)
(* the scan has written so far.                                              *)
(* acc.trace lists, in the order the code performs them, the Gateway        *)
(* invocations ("send"), the Audit Log writes ("audit") and the feed writes *)
(* ("feed") of the running scan.                                             *)
Send(acc, m) ==
    LET invoked == [acc EXCEPT !.trace = Append(@, [op |-> "send", doseId |-> m.doseId, type |-> m.type])] IN
    IF mode \in {"twilio", "fast2sms"}
    THEN [invoked EXCEPT !.fly = Append(@, m)]
    ELSE IF AuditThrows(acc.item) THEN invoked
    ELSE [invoked EXCEPT
                   !.item = AuditWrite(@, LogEntry(acc.lid, m, SyncResult(mode))),
                   !.lid = @ + 1,
                   !.micro = IF m.cb THEN Append(@, [contactId |-> m.contactId, nowIso |-> m.nowIso])
                             ELSE @,
                   !.trace = Append(@, [op |-> "audit", doseId |-> m.doseId, type |-> m.type])]

----------------------------------------------------------------------------
(* SECTION 4: detectMissedDoses (v3) *)

Notif(id, p, doseId, type, contactId, caregiverId) ==
    [id |-> id, patientId |-> p, doseId |-> doseId, type |-> type, timestamp |-> now,
     read |-> FALSE, contactId |-> contactId, caregiverId |-> caregiverId]

(* A faulty dedup set: nothing counts as notified *)
alreadyNotifiedEmpty == {}

(* lines 249-251 *)
alreadyNotified == {notifications[i].doseId : i \in {j \in DOMAIN notifications : notifications[j].doseId # NoId}}

(* lines 244-246 *)
IsOpenDose(d, p) == d.patientId = p /\ d.takenAt = NoTime /\ d.scheduledTime # NoTime

(* A faulty threshold test: a dose exactly THRESHOLD overdue is skipped *)
IsNewMissStrict(d) ==
    /\ ~((now - d.scheduledTime) <= thresholdMs \/ d.id \in alreadyNotified)
    /\ d.medId \in meds

(* A faulty test: the medication is not looked up *)
IsNewMissAnyMed(d) == ~((now - d.scheduledTime) < thresholdMs \/ d.id \in alreadyNotified)

(* lines 267-271: the dose starts a new alert cycle *)
IsNewMiss(d) ==
    /\ ~((now - d.scheduledTime) < thresholdMs \/ d.id \in alreadyNotified)
    /\ d.medId \in meds

(* lines 261-262 *)
CaregiverOf(p) ==
    LET caregiverId == AssignedCaregiverId(p) IN
    IF caregiverId # NoId /\ caregiverId \in Users THEN caregiverId ELSE NoId

RECURSIVE SendToContacts(_, _, _, _, _)
(* lines 286-301: one send per contact, in store order *)
SendToContacts(acc, p, d, cs, k) ==
    IF k > Len(cs) THEN acc
    ELSE SendToContacts(
            Send(acc, SendArgs(p, d.id, contacts[cs[k]].id, "emergency_contact", contacts[cs[k]].phone, TRUE)),
            p, d, cs, k + 1)

(* lines 273-344: the alert cycle of one dose *)
AlertCycle(acc, p, d) ==
    LET cs == SelectSeqIdx(contacts, p, 1)
        cg == CaregiverOf(p)
        a1 == SendToContacts(acc, p, d, cs, 1)
        a2 == IF cg # NoId
              THEN Send(a1, SendArgs(p, d.id, cg, "caregiver", CaregiverEmail, FALSE))
              ELSE a1
        missedNotif == Notif(acc.nid, p, d.id, NT.MISSED_DOSE, NoId, NoId)
        smsNotifs == [k \in 1..Len(cs) |->
                        Notif(acc.nid + k, p, d.id, NT.SMS_SENT, contacts[cs[k]].id, NoId)]
        toAdd == <<missedNotif>> \o smsNotifs \o
                 (IF cg # NoId
                  THEN <<Notif(acc.nid + Len(cs) + 1, p, d.id, NT.CAREGIVER_ALERT, NoId, AssignedCaregiverId(p))>>
                  ELSE <<>>)
    IN [a2 EXCEPT !.notifs = @ \o toAdd, !.nid = @ + Len(toAdd),
                  !.newCount = @ + 1, !.fired = @ \cup {d.id},
                  !.trace = Append(@, [op |-> "feed", doseId |-> d.id, type |-> NT.MISSED_DOSE])]

RECURSIVE ScanDosesOf(_, _, _, _)
(* lines 244-246 and 266-345: allDoses.forEach over the dose store ds *)
ScanDosesOf(ds, acc, p, i) ==
    IF i > Len(ds) THEN acc
    ELSE IF IsOpenDose(ds[i], p) /\ IsNewMiss(ds[i])
    THEN ScanDosesOf(ds, AlertCycle(acc, p, ds[i]), p, i + 1)
    ELSE ScanDosesOf(ds, acc, p, i + 1)

(* the scan of the dose store as it is *)
ScanDoses(acc, p, i) == ScanDosesOf(doses, acc, p, i)

ScanStart ==
    [notifs |-> notifications, item |-> undefinedItem, fly |-> inflight, micro |-> microtasks,
     nid |-> nextNotifId, lid |-> nextLogId, newCount |-> 0, fired |-> {}, trace |-> <<>>]

(* lines 240-348; line 256: an unknown patient returns 0 before the loop *)
DetectOutcome(p) == IF p \notin Users THEN ScanStart ELSE ScanDoses(ScanStart, p, 1)

WithinBounds(r) ==
    /\ r.nid <= MaxNotifId + 1
    /\ r.lid + Len(r.fly) <= MaxLogId + 1

(* A faulty scan: the Notifications it built are not written back *)
CommitKeepsFeed(r) ==
    /\ notifications' = notifications
    /\ undefinedItem' = r.item
    /\ inflight' = r.fly
    /\ microtasks' = r.micro
    /\ nextNotifId' = r.nid
    /\ nextLogId' = r.lid
    /\ cycles' = [d \in DoseIds |-> IF d \in r.fired THEN cycles[d] + 1 ELSE cycles[d]]

Commit(r) ==
    /\ notifications' = r.notifs
    /\ undefinedItem' = r.item
    /\ inflight' = r.fly
    /\ microtasks' = r.micro
    /\ nextNotifId' = r.nid
    /\ nextLogId' = r.lid
    /\ cycles' = [d \in DoseIds |-> IF d \in r.fired THEN cycles[d] + 1 ELSE cycles[d]]

(* ret is the value the call returns (newCount, line 347) *)
detectMissedDoses(p, ret) ==
    LET r == DetectOutcome(p) IN
    /\ ret = r.newCount
    /\ WithinBounds(r)
    /\ Commit(r)
    /\ UNCHANGED <<now, mode, meds, pollTimer, intervals, doses, contacts, nextContactId>>

(* patient.js lines 240-248: the dose is marked taken, then loadAll         *)
(* (lines 33-43) runs a scan of the session's patient over the updated      *)
(* store; an unknown dose id returns before both.                            *)
markTaken(doseId, p) ==
    LET idx == FindIndex(doses, doseId)
        marked == [doses EXCEPT ![idx].takenAt = now]
        r == IF p \notin Users THEN ScanStart ELSE ScanDosesOf(marked, ScanStart, p, 1)
    IN /\ idx # 0
       /\ doses' = marked
       /\ WithinBounds(r)
       /\ Commit(r)
       /\ UNCHANGED <<now, mode, meds, pollTimer, intervals, contacts, nextContactId>>

----------------------------------------------------------------------------
(* Completion of a send *)

(* A faulty callback: it writes back the contact as it was at dispatch,     *)
(* not primary                                                               *)
ThenCallbackStale(ecs, contactId, nowIso) ==
    LET idx == FindIndex(ecs, contactId) IN
    IF idx # 0 THEN [ecs EXCEPT ![idx].notifiedAt = nowIso, ![idx].isPrimary = FALSE] ELSE ecs

(* lines 295-301: the contact's .then callback *)
ThenCallback(ecs, contactId, nowIso) ==
    LET idx == FindIndex(ecs, contactId) IN
    IF idx # 0 THEN [ecs EXCEPT ![idx].notifiedAt = nowIso] ELSE ecs

RECURSIVE DrainMicrotasks(_, _)
DrainMicrotasks(ecs, q) ==
    IF q = <<>> THEN ecs
    ELSE DrainMicrotasks(ThenCallback(ecs, Head(q).contactId, Head(q).nowIso), Tail(q))

(* The turn ends: the queued .then callbacks run, oldest first *)
RunMicrotasks ==
    /\ microtasks # <<>>
    /\ contacts' = DrainMicrotasks(contacts, microtasks)
    /\ microtasks' = <<>>
    /\ UNCHANGED <<now, mode, meds, pollTimer, intervals, doses, notifications, undefinedItem, inflight,
                   nextNotifId, nextLogId, nextContactId, cycles>>

Outcomes == {"accepted", "refused", "network_error", "parse_error"}

(* lines 128-174: what the provider call makes of the send.  A rejected     *)
(* fetch or response.json() lands in the catch block, which reads _mode as  *)
(* it is then.                                                              *)
AsyncResult(branch, outcome) ==
    IF outcome = "network_error" \/ (outcome = "parse_error" /\ branch = "fast2sms")
    THEN Result(FALSE, STATUS.FAILED, mode)
    ELSE IF outcome = "accepted" THEN Result(TRUE, STATUS.SENT, branch)
    ELSE Result(FALSE, STATUS.FAILED, branch)

(* The provider call of the i-th suspended send returns or fails; send      *)
(* resumes (lines 145-199) and the caller's .then callback follows at once. *)
Settle(i, outcome) ==
    LET m == inflight[i]
        result == AsyncResult(m.branch, outcome)
    IN /\ microtasks = <<>>
       /\ outcome = "parse_error" => m.branch = "fast2sms"
       /\ inflight' = RemoveAt(inflight, i)
       /\ IF AuditThrows(undefinedItem)
          THEN UNCHANGED <<undefinedItem, nextLogId, contacts>>
          ELSE /\ undefinedItem' = AuditWrite(undefinedItem, LogEntry(nextLogId, m, result))
               /\ nextLogId' = nextLogId + 1
               /\ contacts' = IF m.cb THEN ThenCallback(contacts, m.contactId, m.nowIso) ELSE contacts
       /\ UNCHANGED <<now, mode, meds, pollTimer, intervals, doses, notifications, microtasks,
                      nextNotifId, nextContactId, cycles>>

(* lines 104-108 *)
setMode(m) ==
    /\ mode' = m
    /\ UNCHANGED <<now, meds, pollTimer, intervals, doses, contacts, notifications, undefinedItem, inflight,
                   microtasks, nextNotifId, nextLogId, nextContactId, cycles>>

----------------------------------------------------------------------------
(* Polling (lines 211-233) *)

TimerIds == {1, 2, 3}

(* setInterval returns a handle no active timer has *)
FreshTimerId == CHOOSE t \in TimerIds : t \notin {i.id : i \in intervals}

(* clearInterval *)
ClearInterval(timers, handle) == {i \in timers : i.id # handle}

(* A faulty start: the handle is kept but no timer runs *)
startPollingNoTimer(p) ==
    /\ intervals' = {}
    /\ pollTimer' = FreshTimerId
    /\ UNCHANGED <<now, mode, meds, doses, contacts, notifications, undefinedItem, inflight,
                   microtasks, nextNotifId, nextLogId, nextContactId, cycles>>

(* lines 217-229 *)
startPolling(p) ==
    /\ intervals' = (IF pollTimer # 0 THEN ClearInterval(intervals, pollTimer) ELSE intervals)
                        \cup {[id |-> FreshTimerId, patientId |-> p]}
    /\ pollTimer' = FreshTimerId
    /\ UNCHANGED <<now, mode, meds, doses, contacts, notifications, undefinedItem, inflight,
                   microtasks, nextNotifId, nextLogId, nextContactId, cycles>>

(* lines 231-233 *)
stopPolling ==
    /\ IF pollTimer # 0
       THEN intervals' = ClearInterval(intervals, pollTimer) /\ pollTimer' = 0
       ELSE UNCHANGED <<pollTimer, intervals>>
    /\ UNCHANGED <<now, mode, meds, doses, contacts, notifications, undefinedItem, inflight,
                   microtasks, nextNotifId, nextLogId, nextContactId, cycles>>

----------------------------------------------------------------------------
(* detectMissedDoses, v1 variant (lines 755-818) *)

RECURSIVE ScanDosesV1(_, _, _)
(* lines 775-809: no patient check; newNotifications collects one          *)
(* missed_dose and one sms_sent per contact for each new miss               *)
ScanDosesV1(acc, p, i) ==
    IF i > Len(doses) THEN acc
    ELSE IF IsOpenDose(doses[i], p)
            /\ (now - doses[i].scheduledTime) >= thresholdMs
            /\ doses[i].id \notin alreadyNotified
            /\ doses[i].medId \in meds
    THEN LET d == doses[i]
             cs == SelectSeqIdx(contacts, p, 1)
             base == acc.nid
             new == <<Notif(base, p, d.id, NT.MISSED_DOSE, NoId, NoId)>> \o
                    [k \in 1..Len(cs) |-> Notif(base + k, p, d.id, NT.SMS_SENT, contacts[cs[k]].id, NoId)]
         IN ScanDosesV1([acc EXCEPT !.notifs = @ \o new, !.nid = @ + Len(new),
                                    !.fired = @ \cup {d.id}], p, i + 1)
    ELSE ScanDosesV1(acc, p, i + 1)

(* line 817: newNotifications.length *)
ReturnedV1(r) == Len(r.notifs) - Len(notifications)

(* lines 755-818; ret is the value the call returns *)
detectMissedDosesV1(p, ret) ==
    LET r == ScanDosesV1(ScanStart, p, 1) IN
    /\ ret = ReturnedV1(r)
    /\ WithinBounds(r)
    /\ Commit(r)
    /\ UNCHANGED <<now, mode, meds, pollTimer, intervals, doses, contacts, nextContactId>>

----------------------------------------------------------------------------
(* SECTION 2: validatePhone *)

Digits == {"0", "1", "2", "3", "4", "5", "6", "7", "8", "9"}
(* \s of the pattern and the characters trim() removes: the space, and the  *)
(* tab standing for the other whitespace characters                          *)
Whitespace == {" ", "\t"}

RECURSIVE TrimLeft(_)
TrimLeft(str) == IF str # <<>> /\ Head(str) \in Whitespace THEN TrimLeft(Tail(str)) ELSE str

RECURSIVE TrimRight(_)
TrimRight(str) ==
    IF str # <<>> /\ str[Len(str)] \in Whitespace THEN TrimRight(SubSeq(str, 1, Len(str) - 1)) ELSE str

(* String.prototype.trim *)
Trim(str) == TrimRight(TrimLeft(str))

(* A faulty validator: the digits are not counted *)
validatePhoneAnyDigits(phone) ==
    LET cleaned == Trim(phone)
        body == IF cleaned # <<>> /\ Head(cleaned) = "+" THEN Tail(cleaned) ELSE cleaned
    IN /\ Len(body) >= 7 /\ Len(body) <= 20
       /\ \A i \in DOMAIN body : body[i] \in Digits \cup Whitespace \cup {"-", "(", ")", "."}

(* lines 75-83: /^\+?[\d\s\-().]{7,20}$/ on the trimmed text, then 7 to 15   *)
(* digits                                                                    *)
validatePhone(phone) ==
    LET cleaned == Trim(phone)
        body == IF cleaned # <<>> /\ Head(cleaned) = "+" THEN Tail(cleaned) ELSE cleaned
        digits == Cardinality({i \in DOMAIN cleaned : cleaned[i] \in Digits})
    IN /\ Len(body) >= 7 /\ Len(body) <= 20
       /\ \A i \in DOMAIN body : body[i] \in Digits \cup Whitespace \cup {"-", "(", ")", "."}
       /\ digits >= 7 /\ digits <= 15

----------------------------------------------------------------------------
(* SECTION 5: emergency contacts *)

(* A faulty demotion: the previous primary stays primary *)
UnsetPrimaryKeepsAll(ecs, p, keep) == ecs

(* lines 361-365 and 391-395: clear isPrimary on the patient's contacts,    *)
(* except the one at position keep (0: none)                                 *)
UnsetPrimary(ecs, p, keep) ==
    [i \in DOMAIN ecs |->
        IF i # keep /\ ecs[i].patientId = p THEN [ecs[i] EXCEPT !.isPrimary = FALSE] ELSE ecs[i]]

(* A faulty validation: the phone format is not checked *)
AddContactRejectsEmptyOnly(name, phone) == Trim(name) = <<>> \/ Trim(phone) = <<>>

(* lines 356-357 *)
AddContactRejects(name, phone) ==
    \/ Trim(name) = <<>> \/ Trim(phone) = <<>>
    \/ ~validatePhone(phone)

(* lines 355-375: the result the call returns (ok, and which error text)    *)
(* and the store it leaves                                                   *)
AddContactResult(p, name, relation, phone, isPrimary) ==
    IF AddContactRejects(name, phone)
    THEN [ok |-> FALSE,
          error |-> IF Trim(name) = <<>> \/ Trim(phone) = <<>> THEN "required" ELSE "invalid_phone",
          contacts |-> contacts]
    ELSE [ok |-> TRUE, error |-> "none",
          contacts |-> Append(IF isPrimary THEN UnsetPrimary(contacts, p, 0) ELSE contacts,
                              Contact(ContactIdNames[nextContactId], p, Trim(name),
                                      IF Trim(relation) = <<>> THEN RelDefault ELSE Trim(relation),
                                      Trim(phone), isPrimary))]

(* lines 355-375; ok is the ok of the result the call returns *)
addContact(p, name, relation, phone, isPrimary, ok) ==
    LET r == AddContactResult(p, name, relation, phone, isPrimary) IN
    /\ ok = r.ok
    /\ IF ~ok THEN UNCHANGED <<contacts, nextContactId>>
       ELSE /\ Len(contacts) < MaxContacts
            /\ nextContactId <= MaxContactId
            /\ contacts' = r.contacts
            /\ nextContactId' = nextContactId + 1
    /\ UNCHANGED <<now, mode, meds, pollTimer, intervals, doses, notifications, undefinedItem, inflight, microtasks,
                   nextNotifId, nextLogId, cycles>>

(* The fields object of updateContact: has names the properties supplied *)
Fields(has, name, relation, phone, isPrimary) ==
    [has |-> has, name |-> name, relation |-> relation, phone |-> phone, isPrimary |-> isPrimary]

(* line 397: { ...updated[idx], ...fields } *)
Merge(c, fields) ==
    [c EXCEPT !.name = IF "name" \in fields.has THEN fields.name ELSE @,
              !.relation = IF "relation" \in fields.has THEN fields.relation ELSE @,
              !.phone = IF "phone" \in fields.has THEN fields.phone ELSE @,
              !.isPrimary = IF "isPrimary" \in fields.has THEN fields.isPrimary ELSE @]

(* lines 378-400: the result the call returns and the store it leaves *)
UpdateContactResult(contactId, fields) ==
    LET idx == FindIndex(contacts, contactId)
        phoneGiven == "phone" \in fields.has /\ fields.phone # <<>>
        primaryGiven == "isPrimary" \in fields.has /\ fields.isPrimary
    IN IF idx = 0 THEN [ok |-> FALSE, error |-> "not_found", contacts |-> contacts]
       ELSE IF phoneGiven /\ ~validatePhone(fields.phone)
       THEN [ok |-> FALSE, error |-> "invalid_phone", contacts |-> contacts]
       ELSE [ok |-> TRUE, error |-> "none",
             contacts |-> LET updated == IF primaryGiven
                                         THEN UnsetPrimary(contacts, contacts[idx].patientId, idx)
                                         ELSE contacts
                          IN [updated EXCEPT ![idx] = Merge(updated[idx], fields)]]

(* lines 378-400; ok is the ok of the result the call returns *)
updateContact(contactId, fields, ok) ==
    LET r == UpdateContactResult(contactId, fields) IN
    /\ ok = r.ok
    /\ contacts' = r.contacts
    /\ UNCHANGED <<now, mode, meds, pollTimer, intervals, doses, notifications, undefinedItem, inflight, microtasks,
                   nextNotifId, nextLogId, nextContactId, cycles>>

(* lines 477-483 *)
setPrimary(contactId, ok) == updateContact(contactId, Fields({"isPrimary"}, <<>>, <<>>, <<>>, TRUE), ok)

(* lines 403-409 *)
deleteContact(contactId) ==
    /\ contacts' = SelectSeq(contacts, LAMBDA c : c.id # contactId)
    /\ UNCHANGED <<now, mode, meds, pollTimer, intervals, doses, notifications, undefinedItem, inflight, microtasks,
                   nextNotifId, nextLogId, nextContactId, cycles>>

(* v1 variant, lines 939-945: no isPrimary property, which reads as false;  *)
(* ok is the boolean the call returns                                        *)
addContactV1(p, name, relation, phone, ok) ==
    /\ ok = (name # <<>> /\ phone # <<>>)
    /\ IF ~ok THEN UNCHANGED <<contacts, nextContactId>>
       ELSE /\ Len(contacts) < MaxContacts
            /\ nextContactId <= MaxContactId
            /\ contacts' = Append(contacts,
                                  Contact(ContactIdNames[nextContactId], p, name,
                                          IF relation = <<>> THEN RelDefault ELSE relation,
                                          phone, FALSE))
            /\ nextContactId' = nextContactId + 1
    /\ UNCHANGED <<now, mode, meds, pollTimer, intervals, doses, notifications, undefinedItem, inflight, microtasks,
                   nextNotifId, nextLogId, cycles>>

----------------------------------------------------------------------------
(* SECTION 8: alert history *)

(* A faulty acknowledgement: the entry is also marked as delivered *)
AcknowledgeMarksSent(logs, idx, t) ==
    [logs EXCEPT ![idx].acknowledgedAt = t, ![idx].deliveryStatus = STATUS.SENT]

(* line 629: logs[idx].acknowledgedAt = new Date().toISOString() *)
Acknowledge(logs, idx, t) == [logs EXCEPT ![idx].acknowledgedAt = t]

(* lines 625-633.  When the item is an object, getItem returns it and       *)
(* logs.findIndex throws a TypeError: nothing is written.                    *)
(* patientId is passed on to renderAlertHistory only (line 632)             *)
AcknowledgeLogItem(item, logId, p, t) ==
    LET logs == GetItemArray(item)
        idx == FindIndex(logs, logId)
    IN IF AuditThrows(item) \/ idx = 0 THEN item
       ELSE SetItemArray(Acknowledge(logs, idx, t))

acknowledgeLog(logId, p) ==
       /\ undefinedItem' = AcknowledgeLogItem(undefinedItem, logId, p, now)
       /\ UNCHANGED <<now, mode, meds, pollTimer, intervals, doses, contacts, notifications, inflight, microtasks,
                      nextNotifId, nextLogId, nextContactId, cycles>>

(* lines 635-643.  When the item is an object, logs.map throws; an absent   *)
(* item is written back as the empty array.                                  *)
AcknowledgeAllItem(item, p, t) ==
    LET logs == GetItemArray(item) IN
    IF AuditThrows(item) THEN item
    ELSE SetItemArray(
            [i \in DOMAIN logs |->
                IF logs[i].patientId = p /\ logs[i].acknowledgedAt = NoTime
                THEN [logs[i] EXCEPT !.acknowledgedAt = t] ELSE logs[i]])

acknowledgeAllLogs(p) ==
    /\ undefinedItem' = AcknowledgeAllItem(undefinedItem, p, now)
    /\ UNCHANGED <<now, mode, meds, pollTimer, intervals, doses, contacts, notifications, inflight, microtasks,
                   nextNotifId, nextLogId, nextContactId, cycles>>

----------------------------------------------------------------------------
(* SECTION 9: the Notification Feed *)

(* lines 653-659 *)
markAllRead(p) ==
    /\ notifications' = [i \in DOMAIN notifications |->
                            IF notifications[i].patientId = p
                            THEN [notifications[i] EXCEPT !.read = TRUE] ELSE notifications[i]]
    /\ UNCHANGED <<now, mode, meds, pollTimer, intervals, doses, contacts, undefinedItem, inflight, microtasks,
                   nextNotifId, nextLogId, nextContactId, cycles>>

(* lines 661-665 *)
markOneRead(notifId) ==
    /\ notifications' = [i \in DOMAIN notifications |->
                            IF notifications[i].id = notifId
                            THEN [notifications[i] EXCEPT !.read = TRUE] ELSE notifications[i]]
    /\ UNCHANGED <<now, mode, meds, pollTimer, intervals, doses, contacts, undefinedItem, inflight, microtasks,
                   nextNotifId, nextLogId, nextContactId, cycles>>

(* A faulty clear: the whole feed goes, whoever the patient *)
clearAllNotificationsOfAll(p) ==
    /\ notifications' = <<>>
    /\ UNCHANGED <<now, mode, meds, pollTimer, intervals, doses, contacts, undefinedItem, inflight, microtasks,
                   nextNotifId, nextLogId, nextContactId, cycles>>

(* lines 678-682 *)
clearAllNotifications(p) ==
    /\ notifications' = SelectSeq(notifications, LAMBDA n : n.patientId # p)
    /\ UNCHANGED <<now, mode, meds, pollTimer, intervals, doses, contacts, undefinedItem, inflight, microtasks,
                   nextNotifId, nextLogId, nextContactId, cycles>>

----------------------------------------------------------------------------
(* SECTION 5: caregiver assignment *)

(* lines 412-417.  getObj returns a stored array as it is: the assignment   *)
(* becomes a property of the array that JSON.stringify drops, and the array *)
(* is written back.                                                          *)
AssignCaregiverItem(item, p, caregiverId) ==
    IF item.kind = "array" THEN item
    ELSE LET rest == {pr \in item.obj : pr[1] # p} IN
         SetItemObject(IF caregiverId # NoId THEN rest \cup {<<p, caregiverId>>} ELSE rest)

assignCaregiver(p, caregiverId) ==
    /\ undefinedItem' = AssignCaregiverItem(undefinedItem, p, caregiverId)
    /\ UNCHANGED <<now, mode, meds, pollTimer, intervals, doses, contacts, notifications, inflight, microtasks,
                   nextNotifId, nextLogId, nextContactId, cycles>>

(* lines 419-424 *)
GetAssignedCaregiverOf(item, p) ==
    LET cgId == GetObjLookup(item, p) IN
    IF cgId = NoId THEN NoId ELSE IF cgId \in Users THEN cgId ELSE NoId

getAssignedCaregiver(p) == GetAssignedCaregiverOf(undefinedItem, p)

----------------------------------------------------------------------------
(* Doctor dashboard: deleteMed *)

(* doctor.js lines 416-421: the medication goes, its doses stay *)
deleteMed(medId) ==
    /\ meds' = meds \ {medId}
    /\ UNCHANGED <<now, mode, pollTimer, intervals, doses, contacts, notifications, undefinedItem,
                   inflight, microtasks, nextNotifId, nextLogId, nextContactId, cycles>>

----------------------------------------------------------------------------
(* The clock *)

Tick ==
    /\ \E t \in Instants : t > now /\ now' = t
    /\ UNCHANGED <<mode, meds, pollTimer, intervals, doses, contacts, notifications, undefinedItem, inflight,
                   microtasks, nextNotifId, nextLogId, nextContactId, cycles>>

(* The session's patient: the dashboards call the feed, contact and        *)
(* caregiver operations with session.userId                                 *)
SessionPatient == "p1"

Next ==
    \/ Tick
    \/ \E p \in PatientArgs : detectMissedDoses(p, DetectOutcome(p).newCount)
    \/ \E p \in PatientArgs : detectMissedDosesV1(p, ReturnedV1(ScanDosesV1(ScanStart, p, 1)))
    \/ RunMicrotasks
    \/ \E i \in DOMAIN inflight, o \in Outcomes : Settle(i, o)
    \/ \E m \in Modes : setMode(m)
    \/ clearAllNotifications(SessionPatient)
    \/ \E c \in CaregiverArgs : assignCaregiver(SessionPatient, c)
    \/ \E c \in ContactArgs : deleteContact(c)

Spec == Init /\ [][Next]_vars

----------------------------------------------------------------------------
(* The Contact Directory on its own: the emergency-contact forms of the    *)
(* patient dashboard (patient.js lines 326-396) and the v1 add form          *)

ContactPatients == {"p1", "p2"}
PhoneBad == <<"a", "b", "c">>
NameInputs == {NameMary, <<>>}
PhoneInputs == {PhoneMary, PhoneBad, <<>>}
FieldsInputs ==
    {Fields({"isPrimary"}, <<>>, <<>>, <<>>, TRUE)}
    \cup {Fields({"name", "relation", "phone", "isPrimary"}, NameMary, RelDefault, ph, pr) :
              ph \in PhoneInputs, pr \in BOOLEAN}
ContactIdArgs == {ContactIdNames[k] : k \in 1..(MaxContactId + 1)}

NextContacts ==
    \/ \E p \in ContactPatients, name \in NameInputs, phone \in PhoneInputs, pr \in BOOLEAN, ok \in BOOLEAN :
          addContact(p, name, <<>>, phone, pr, ok)
    \/ \E p \in ContactPatients, name \in NameInputs, phone \in PhoneInputs, ok \in BOOLEAN :
          addContactV1(p, name, <<>>, phone, ok)
    \/ \E c \in ContactIdArgs, f \in FieldsInputs, ok \in BOOLEAN : updateContact(c, f, ok)
    \/ \E c \in ContactIdArgs, ok \in BOOLEAN : setPrimary(c, ok)
    \/ \E c \in ContactIdArgs : deleteContact(c)

SpecContacts == Init /\ [][NextContacts]_vars

----------------------------------------------------------------------------
(* validatePhone on its own: updateContact called with phone texts around   *)
(* the limits of the pattern (7 and 20 characters after the sign, 7 and 15  *)
(* digits) and the examples of the comment at lines 70-73                    *)

Rep(ch, n) == [i \in 1..n |-> ch]
Phone555 == <<"5", "5", "5", "-", "0", "1", "0", "1">>
PhoneIndia == <<"+", "9", "1", "9", "8", "7", "6", "5", "4", "3", "2", "1", "0">>
PhoneParens == <<"(", "5", "5", "5", ")", " ", "1", "2", "3", "-", "4", "5", "6", "7">>
PhoneDots == <<"5", "5", "5", ".", "1", "2", "3", ".", "4", "5", "6", "7">>
Separators == {"-", "\t", "x"}
DigitCounts == 6..16
SeparatorCounts == {0, 1, 5, 6, 13, 14}
PhoneStrings ==
    {sign \o Rep("5", 3) \o Rep(sep, k) \o Rep("5", d - 3) :
        sign \in {<<>>, <<"+">>}, sep \in Separators, k \in SeparatorCounts, d \in DigitCounts}
    \cup {Phone555, PhoneIndia, PhoneParens, PhoneDots, PhoneMary, PhoneBad, <<>>, <<"+">>,
          <<" ">> \o Phone555 \o <<" ", "\t">>, <<"+">> \o PhoneIndia,
          <<"5", "5", "5", "+", "0", "1", "0", "1">>}

NextPhone ==
    \E phone \in PhoneStrings, ok \in BOOLEAN :
        updateContact("c2", Fields({"phone"}, <<>>, <<>>, phone, FALSE), ok)

SpecPhone == Init /\ [][NextPhone]_vars

----------------------------------------------------------------------------
(* The poll timer: the patient dashboard starts it (patient.js 46-48); an   *)
(* active interval timer runs its callback (lines 219-224: the scan, then   *)
(* updateBadge, which only reads) at any later turn                          *)

AuditOutcomes == {"accepted", "network_error"}

PollCallback(t) ==
    /\ t \in intervals
    /\ microtasks = <<>>
    /\ detectMissedDoses(t.patientId, DetectOutcome(t.patientId).newCount)

NextPolling ==
    \/ Tick
    \/ startPolling(SessionPatient)
    \/ stopPolling
    \/ \E t \in intervals : PollCallback(t)
    \/ RunMicrotasks
    \/ \E i \in DOMAIN inflight, o \in AuditOutcomes : Settle(i, o)
    \/ \E m \in Modes : setMode(m)
    \/ \E c \in CaregiverArgs : assignCaregiver(SessionPatient, c)
    \/ \E c \in ContactArgs : deleteContact(c)

SpecPolling == Init /\ [][NextPolling]_vars

----------------------------------------------------------------------------
(* Contact edits while sends are under way: the scans and the completions   *)
(* of their sends next to the emergency-contact forms of the patient        *)
(* dashboard (patient.js 326-397) and the delete and set-primary buttons;    *)
(* the provider accepts every send                                           *)

EditedContacts == {"c1"}
Renamed == Fields({"name", "relation", "phone", "isPrimary"}, NameRobert, RelDefault, PhoneRobert, FALSE)

NextEdits ==
    \/ Tick
    \/ detectMissedDoses(SessionPatient, DetectOutcome(SessionPatient).newCount)
    \/ RunMicrotasks
    \/ \E i \in DOMAIN inflight : Settle(i, "accepted")
    \/ \E m \in Modes : setMode(m)
    \/ \E ok \in BOOLEAN : addContact(SessionPatient, NameMary, <<>>, PhoneMary, FALSE, ok)
    \/ \E ok \in BOOLEAN : updateContact("c1", Renamed, ok)
    \/ \E c \in EditedContacts, ok \in BOOLEAN : setPrimary(c, ok)
    \/ \E c \in ContactArgs : deleteContact(c)

SpecEdits == Init /\ [][NextEdits]_vars

----------------------------------------------------------------------------
(* Polling with a clock that keeps advancing: the patient dashboard with    *)
(* one emergency contact (c2 removed), its poll timer, the Mark-as-taken    *)
(* button and the gateway.  An active interval timer keeps running its      *)
(* callback, the clock keeps advancing and a turn's queued callbacks run.    *)

InitLive ==
    /\ now = 0
    /\ mode = "simulation"
    /\ pollTimer = 0
    /\ intervals = {}
    /\ meds = {"m1"}
    /\ doses = InitDoses
    /\ contacts = << Contact("c1", "p1", NameMary, RelDefault, PhoneMary, FALSE) >>
    /\ notifications = <<>>
    /\ undefinedItem = AbsentItem
    /\ inflight = <<>>
    /\ microtasks = <<>>
    /\ nextNotifId = 1
    /\ nextLogId = 1
    /\ nextContactId = 3
    /\ cycles = [d \in DoseIds |-> 0]

TakenArgs == {"d1", "d2"}

PollCallbacks == \E t \in intervals : PollCallback(t)

NextLive ==
    \/ Tick
    \/ startPolling(SessionPatient)
    \/ stopPolling
    \/ PollCallbacks
    \/ \E d \in TakenArgs : markTaken(d, SessionPatient)
    \/ RunMicrotasks
    \/ \E i \in DOMAIN inflight, o \in AuditOutcomes : Settle(i, o)
    \/ \E m \in Modes : setMode(m)

SpecLive ==
    /\ InitLive
    /\ [][NextLive]_vars
    /\ WF_vars(Tick)
    /\ WF_vars(PollCallbacks)
    /\ WF_vars(RunMicrotasks)

----------------------------------------------------------------------------
(* The Audit Log and what can write to the item that holds it: the alert   *)
(* history buttons of the patient dashboard (lines 611 and patient.js       *)
(* 410-412) next to the scans, the sends and the other dashboard handlers   *)

LogIdArgs == 1..(MaxLogId + 1)

NextAudit ==
    \/ Tick
    \/ detectMissedDoses(SessionPatient, DetectOutcome(SessionPatient).newCount)
    \/ RunMicrotasks
    \/ \E i \in DOMAIN inflight, o \in AuditOutcomes : Settle(i, o)
    \/ \E m \in Modes : setMode(m)
    \/ \E l \in LogIdArgs, p \in ContactPatients : acknowledgeLog(l, p)
    \/ acknowledgeAllLogs(SessionPatient)
    \/ clearAllNotifications(SessionPatient)
    \/ \E c \in CaregiverArgs : assignCaregiver(SessionPatient, c)
    \/ \E ok \in BOOLEAN : setPrimary("c1", ok)

SpecAudit == Init /\ [][NextAudit]_vars

----------------------------------------------------------------------------
(* Properties *)

(* The missed_dose Notifications of ns that carry doseId *)
MissedDoseNotifs(ns, doseId) ==
    Cardinality({i \in DOMAIN ns : ns[i].type = NT.MISSED_DOSE /\ ns[i].doseId = doseId})

NoPriorNotification(d) == d.id \notin {notifications[i].doseId : i \in DOMAIN notifications}

(* The doses of p a scan has to alert for: untaken, medication on record,   *)
(* no Notification yet, THRESHOLD or more overdue                            *)
Missed(p) ==
    {i \in DOMAIN doses : /\ doses[i].patientId = p
                          /\ doses[i].takenAt = NoTime
                          /\ doses[i].medId \in meds
                          /\ NoPriorNotification(doses[i])
                          /\ now - doses[i].scheduledTime >= thresholdMs}

ContactCount(p) == Len(SelectSeqIdx(contacts, p, 1))

(* A call of detectMissedDoses(p) in the current state would return 0,      *)
(* append no Notification, write no AlertLogEntry and dispatch no send       *)
SecondCallIdle(p) ==
    LET r == DetectOutcome(p) IN
    /\ r.newCount = 0
    /\ r.notifs = notifications
    /\ r.item = undefinedItem
    /\ r.fly = inflight
    /\ r.micro = microtasks

SecondCallIdleV1(p) ==
    LET r == ScanDosesV1(ScanStart, p, 1) IN
    /\ ReturnedV1(r) = 0
    /\ r.notifs = notifications
    /\ r.item = undefinedItem
    /\ r.fly = inflight

(* The step appended Notifications of patient p.  A scan that alerts for a  *)
(* dose does; a scan that alerts for none returns 0 and leaves every store  *)
(* as it was, so that a second call repeats it.                              *)
AppendedFor(p) ==
    /\ Len(notifications') > Len(notifications)
    /\ notifications'[Len(notifications')].patientId = p

(* C1: when detectMissedDoses(p) has just run (either variant), a second    *)
(* call of it in the state the first one left, at the same clock value and  *)
(* with the stores untouched, returns 0, appends no Notification, writes no *)
(* AlertLogEntry and dispatches no gateway send.                             *)
IdempotentDetection ==
    [][\A p \in PatientArgs :
          /\ (AppendedFor(p) /\ detectMissedDoses(p, DetectOutcome(p).newCount))
                => SecondCallIdle(p)'
          /\ (AppendedFor(p) /\ detectMissedDosesV1(p, ReturnedV1(ScanDosesV1(ScanStart, p, 1))))
                => SecondCallIdleV1(p)']_vars

(* C1: a first scan has alerted for d1, which is still untaken and overdue, *)
(* and a second scan now finds nothing to do                                 *)
IdempotentDetectionWitness ==
    /\ now = thresholdMs
    /\ cycles["d1"] = 1
    /\ MissedDoseNotifs(notifications, "d1") = 1
    /\ doses[1].takenAt = NoTime
    /\ SecondCallIdle("p1")
    /\ SecondCallIdleV1("p1")

(* C2: over any sequence of operations a dose triggers at most one alert    *)
(* cycle (at most one missed_dose Notification is ever created for it), and *)
(* the Audit Log never holds two entries for the same dose and recipient.   *)
AtMostOneAlertCycle ==
    /\ \A d \in DoseIds : cycles[d] <= 1
    /\ \A i, j \in DOMAIN AlertLogs :
          (AlertLogs[i].doseId = AlertLogs[j].doseId
             /\ AlertLogs[i].contactId = AlertLogs[j].contactId) => i = j

(* C3: for an existing patient with N emergency contacts and an assigned    *)
(* caregiver, a scan that finds one newly missed dose appends exactly       *)
(* 1 missed_dose + N sms_sent + 1 caregiver_alert Notifications, and (in    *)
(* simulation mode, where every send completes within the scan) the Audit   *)
(* Log gains exactly N + 1 entries.                                          *)
FanOutCompleteness ==
    [][\A p \in PatientArgs \cap Users :
          (/\ detectMissedDoses(p, DetectOutcome(p).newCount)
           /\ mode = "simulation"
           /\ CaregiverOf(p) # NoId
           /\ Cardinality(Missed(p)) = 1)
          => LET N == ContactCount(p)
                 base == Len(notifications)
             IN /\ Len(notifications') = base + N + 2
                /\ notifications'[base + 1].type = NT.MISSED_DOSE
                /\ \A k \in 1..N : notifications'[base + 1 + k].type = NT.SMS_SENT
                /\ notifications'[base + N + 2].type = NT.CAREGIVER_ALERT
                /\ Len(AlertLogs') = Len(AlertLogs) + N + 1]_vars

NewlyAlerted ==
    {notifications'[i].doseId :
        i \in {j \in (Len(notifications) + 1)..Len(notifications') :
                  notifications'[j].type = NT.MISSED_DOSE}}

(* C5: the value detectMissedDoses(p) returns (either variant) is the       *)
(* number of distinct doses a new alert cycle was fired for in that call,   *)
(* not the number of Notifications or messages.                              *)
ReturnsDoseCount ==
    [][\A p \in PatientArgs, ret \in ReturnValues :
          (detectMissedDoses(p, ret) \/ detectMissedDosesV1(p, ret))
          => ret = Cardinality(NewlyAlerted)]_vars

(* C6: when patientId identifies no user, detectMissedDoses (either         *)
(* variant) returns 0, leaves the Notification, Audit Log, EmergencyContact,*)
(* Dose and Medication stores as they are and dispatches no send.            *)
UnknownPatientNoEffect ==
    [][\A p \in PatientArgs \ Users, ret \in ReturnValues :
          (detectMissedDoses(p, ret) \/ detectMissedDosesV1(p, ret))
          => /\ ret = 0
             /\ UNCHANGED <<notifications, undefinedItem, contacts, doses, meds, pollTimer, intervals, inflight>>]_vars

PrimariesOf(ecs, p) == {i \in DOMAIN ecs : ecs[i].patientId = p /\ ecs[i].isPrimary}

AtMostOnePrimary == \A p \in ContactPatients : Cardinality(PrimariesOf(contacts, p)) <= 1

(* Contacts of patients other than p stay in place with their isPrimary    *)
(* value                                                                    *)
OthersKeepPrimary(p) ==
    \A i \in DOMAIN contacts :
        contacts[i].patientId # p =>
            (i \in DOMAIN contacts' /\ contacts'[i].id = contacts[i].id
               /\ contacts'[i].isPrimary = contacts[i].isPrimary)

(* What one step of the directory does to isPrimary.  A step that appends   *)
(* a contact is an addContact for that contact's patient; a step that       *)
(* keeps the positions is an updateContact or setPrimary of some contact;   *)
(* a step that shortens the store is a deleteContact.                        *)
SinglePrimaryStep ==
    IF Len(contacts') = Len(contacts) + 1
    THEN LET k == Len(contacts')
             p == contacts'[k].patientId
         IN /\ contacts'[k].isPrimary => PrimariesOf(contacts', p) = {k}
            /\ OthersKeepPrimary(p)
    ELSE IF Len(contacts') = Len(contacts)
    THEN \E idx \in DOMAIN contacts :
            LET p == contacts[idx].patientId IN
            /\ contacts'[idx].isPrimary => PrimariesOf(contacts', p) = {idx}
            /\ \A i \in DOMAIN contacts \ {idx} : contacts'[i].isPrimary => contacts[i].isPrimary
            /\ OthersKeepPrimary(p)
    ELSE \A k \in DOMAIN contacts' : \E i \in DOMAIN contacts : contacts[i] = contacts'[k]

SendsOfScan(p) ==
    DetectOutcome(p).newCount * (ContactCount(p) + (IF CaregiverOf(p) # NoId THEN 1 ELSE 0))

(* C8: every SMSGateway.send, whatever the mode and the outcome, appends    *)
(* exactly one AlertLogEntry before its result reaches the caller, and the  *)
(* entry's deliveryStatus and provider are those of the result.              *)
AuditOnEverySend ==
    [][/\ \A p \in PatientArgs :
            (detectMissedDoses(p, DetectOutcome(p).newCount) /\ mode = "simulation")
            => /\ Len(AlertLogs') = Len(AlertLogs) + SendsOfScan(p)
               /\ \A k \in 1..SendsOfScan(p) :
                     /\ AlertLogs'[k].deliveryStatus = SyncResult(mode).status
                     /\ AlertLogs'[k].provider = SyncResult(mode).provider
       /\ \A i \in DOMAIN inflight, o \in Outcomes :
            Settle(i, o)
            => /\ Len(AlertLogs') = Len(AlertLogs) + 1
               /\ AlertLogs'[1].deliveryStatus = AsyncResult(inflight[i].branch, o).status
               /\ AlertLogs'[1].provider = AsyncResult(inflight[i].branch, o).provider]_vars

(* C9: in simulation mode, with one dose overdue by 31 minutes, 2 contacts  *)
(* and an assigned caregiver, detectMissedDoses returns 1, the feed gains 4 *)
(* entries and the Audit Log gains 3 entries, each with deliveryStatus       *)
(* 'simulated'.                                                              *)
SimulationScenario ==
    [][\A p \in PatientArgs \cap Users, ret \in ReturnValues :
          (/\ detectMissedDoses(p, ret)
           /\ mode = "simulation"
           /\ ContactCount(p) = 2
           /\ CaregiverOf(p) # NoId
           /\ Cardinality(Missed(p)) = 1
           /\ \A i \in Missed(p) : now - doses[i].scheduledTime = 31 * 60 * 1000)
          => /\ ret = 1
             /\ Len(notifications') = Len(notifications) + 4
             /\ Len(AlertLogs') = Len(AlertLogs) + 3
             /\ \A k \in 1..3 : AlertLogs'[k].deliveryStatus = STATUS.SIMULATED]_vars

(* C10: in a real-provider mode a network or response-parse error of a send *)
(* is not propagated: the send completes with status 'failed' and an audit  *)
(* entry with deliveryStatus 'failed' is recorded, and the scan that        *)
(* dispatched it keeps its count and its Notifications.                      *)
FailedSendContained ==
    [][\A i \in DOMAIN inflight, o \in {"network_error", "parse_error"} :
          Settle(i, o)
          => /\ AsyncResult(inflight[i].branch, o).status = STATUS.FAILED
             /\ ~AsyncResult(inflight[i].branch, o).ok
             /\ Len(AlertLogs') = Len(AlertLogs) + 1
             /\ AlertLogs'[1].deliveryStatus = STATUS.FAILED
             /\ notifications' = notifications
             /\ cycles' = cycles]_vars

(* e2 is e1 but for acknowledgedAt *)
SameButAcknowledgedAt(e1, e2) == [e1 EXCEPT !.acknowledgedAt = e2.acknowledgedAt] = e2

(* C11: once an AlertLogEntry has been acknowledged, no later acknowledgeLog *)
(* or acknowledgeAllLogs (nor any other step) changes its acknowledgedAt.    *)
AcknowledgedOnce ==
    [][\A i \in DOMAIN AlertLogs :
          AlertLogs[i].acknowledgedAt # NoTime
          => \E j \in DOMAIN AlertLogs' :
                /\ AlertLogs'[j].id = AlertLogs[i].id
                /\ AlertLogs'[j].acknowledgedAt = AlertLogs[i].acknowledgedAt]_vars

(* The step kept the Audit Log's entries in place, each as it was but for   *)
(* acknowledgedAt                                                            *)
OnlyAcknowledgedAtChanges ==
    /\ Len(AlertLogs') = Len(AlertLogs)
    /\ \A i \in DOMAIN AlertLogs : SameButAcknowledgedAt(AlertLogs[i], AlertLogs'[i])

(* C12: acknowledgeLog and acknowledgeAllLogs change no field of any entry  *)
(* other than acknowledgedAt and add, remove or reorder no entry;           *)
(* acknowledgeLog with an unknown id leaves the Audit Log as it was.         *)
AuditImmutability ==
    [][/\ \A l \in LogIdArgs :
            acknowledgeLog(l, SessionPatient) =>
               /\ OnlyAcknowledgedAtChanges
               /\ \A i \in DOMAIN AlertLogs : AlertLogs[i].id # l => AlertLogs'[i] = AlertLogs[i]
               /\ FindIndex(AlertLogs, l) = 0 => AlertLogs' = AlertLogs
       /\ \A p \in {SessionPatient} :
            acknowledgeAllLogs(p) =>
               /\ OnlyAcknowledgedAtChanges
               /\ \A i \in DOMAIN AlertLogs :
                     AlertLogs[i].patientId # p => AlertLogs'[i] = AlertLogs[i]]_vars

(* C12: of two entries, one has been acknowledged and the other has not     *)
AuditImmutabilityWitness ==
    \E i, j \in DOMAIN AlertLogs :
        /\ AlertLogs[i].acknowledgedAt # NoTime
        /\ AlertLogs[i].acknowledgedAt > AlertLogs[i].triggeredAt
        /\ AlertLogs[j].acknowledgedAt = NoTime

(* C13: clearAllNotifications(p) removes every Notification of patient p    *)
(* and nothing else: the Notifications of other patients stay, in order,    *)
(* and the Audit Log, the contacts and the caregiver assignment are as they *)
(* were.                                                                     *)
ClearRemovesOnlyOwn ==
    [][\A p \in {SessionPatient} :
          clearAllNotifications(p) =>
             /\ \A k \in DOMAIN notifications' : notifications'[k].patientId # p
             /\ LET others == {i \in DOMAIN notifications : notifications[i].patientId # p} IN
                /\ Len(notifications') = Cardinality(others)
                /\ \A i \in others :
                      notifications'[Cardinality({j \in others : j <= i})] = notifications[i]
             /\ UNCHANGED <<undefinedItem, contacts, doses, meds>>]_vars

(* C13: p1's feed has been cleared after an alert for p1 (its audit entry   *)
(* is still there), and the Notification of another patient is still in the *)
(* feed                                                                      *)
ClearRemovesOnlyOwnWitness ==
    /\ notifications # <<>>
    /\ \A i \in DOMAIN notifications : notifications[i].patientId # SessionPatient
    /\ \E i \in DOMAIN AlertLogs : AlertLogs[i].patientId = SessionPatient
    /\ cycles["d1"] >= 1

(* C14: the Audit Log is append-only: in every step each existing entry     *)
(* stays, as it was but for acknowledgedAt, and the entries that were there *)
(* keep their order.                                                         *)
AuditAppendOnly ==
    [][/\ Len(AlertLogs') >= Len(AlertLogs)
       /\ LET shift == Len(AlertLogs') - Len(AlertLogs) IN
          \A i \in DOMAIN AlertLogs : SameButAcknowledgedAt(AlertLogs[i], AlertLogs'[i + shift])]_vars

(* C14: an entry was appended after an older one had been acknowledged, the *)
(* feed has been cleared since, and both entries are there                   *)
AuditAppendOnlyWitness ==
    /\ Len(AlertLogs) >= 2
    /\ AlertLogs[Len(AlertLogs)].acknowledgedAt # NoTime
    /\ AlertLogs[1].triggeredAt > AlertLogs[Len(AlertLogs)].acknowledgedAt
    /\ notifications = <<>>
    /\ cycles["d1"] >= 1

IsBlank(str) == \A i \in DOMAIN str : str[i] \in Whitespace
Blank == <<" ", " ">>
NameCases == NameInputs \cup {Blank, <<" ">> \o NameMary}
PhoneCases == PhoneInputs \cup {Blank, PhoneMary \o <<" ">>}

(* C15: addContact fails with a reason and leaves the contact store as it   *)
(* was (nothing added, no primary demoted) whenever name or phone is empty  *)
(* or blank or the phone fails validatePhone, whatever isPrimary; otherwise *)
(* it succeeds and adds exactly one contact, for that patient.               *)
AddContactValidation ==
    \A p \in ContactPatients, name \in NameCases, phone \in PhoneCases, pr \in BOOLEAN :
        LET r == AddContactResult(p, name, <<>>, phone, pr) IN
        IF IsBlank(name) \/ IsBlank(phone) \/ ~validatePhone(phone)
        THEN ~r.ok /\ r.error # "none" /\ r.contacts = contacts
        ELSE /\ r.ok
             /\ Len(r.contacts) = Len(contacts) + 1
             /\ r.contacts[Len(r.contacts)].patientId = p
             /\ r.contacts[Len(r.contacts)].isPrimary = pr
             /\ \A i \in DOMAIN contacts : r.contacts[i].id = contacts[i].id

(* C15: a contact has been added through addContact, patient p1 has a       *)
(* primary contact, and an addContact for p1 with isPrimary requested and   *)
(* an invalid phone would now be refused and leave that primary in place     *)
AddContactValidationWitness ==
    /\ \E i \in DOMAIN contacts : contacts[i].id \notin {"c1", "c2"}
    /\ \E i \in DOMAIN contacts : contacts[i].patientId = "p1" /\ contacts[i].isPrimary
    /\ ~AddContactResult("p1", NameMary, <<>>, PhoneBad, TRUE).ok
    /\ AddContactResult("p1", NameMary, <<>>, PhoneMary, TRUE).ok

(* C16: updateContact applies addContact's validation: an update supplying  *)
(* an empty name, an empty phone or a phone failing validatePhone is        *)
(* refused with the store unchanged; an unknown id is refused as not found  *)
(* with the store unchanged; an accepted update merges the fields and keeps *)
(* the record's id and patientId.                                            *)
UpdateContactValidation ==
    \A c \in ContactIdArgs, f \in FieldsInputs :
        LET r == UpdateContactResult(c, f)
            idx == FindIndex(contacts, c)
            bad == \/ ("name" \in f.has /\ IsBlank(f.name))
                   \/ ("phone" \in f.has /\ (IsBlank(f.phone) \/ ~validatePhone(f.phone)))
        IN IF idx = 0 THEN ~r.ok /\ r.error = "not_found" /\ r.contacts = contacts
           ELSE IF bad THEN ~r.ok /\ r.contacts = contacts
           ELSE /\ r.ok
                /\ r.contacts[idx].id = contacts[idx].id
                /\ r.contacts[idx].patientId = contacts[idx].patientId
                /\ r.contacts[idx] = Merge(contacts[idx], f)

Punctuation == {"-", "(", ")", "."}
NonBlankAt(str) == {i \in DOMAIN str : str[i] \notin Whitespace}
Least(S) == CHOOSE x \in S : \A y \in S : x <= y
Greatest(S) == CHOOSE x \in S : \A y \in S : x >= y
Trimmed(str) == IF NonBlankAt(str) = {} THEN <<>> ELSE SubSeq(str, Least(NonBlankAt(str)), Greatest(NonBlankAt(str)))
CountIn(str, chars) == Cardinality({i \in DOMAIN str : str[i] \in chars})

(* The accepted shape: an optional leading '+', then 7 to 20 characters out *)
(* of the digits and the given separators, 7 to 15 of the characters digits *)
PhoneShape(str, separators) ==
    LET t == Trimmed(str)
        first == IF t # <<>> /\ t[1] = "+" THEN 2 ELSE 1
    IN /\ Len(t) - first + 1 >= 7 /\ Len(t) - first + 1 <= 20
       /\ \A i \in first..Len(t) : t[i] \in Digits \cup separators
       /\ CountIn(t, Digits) >= 7 /\ CountIn(t, Digits) <= 15

StoredPhones == {contacts[i].phone : i \in DOMAIN contacts}

ExamplesDecided == validatePhone(PhoneIndia) /\ validatePhone(Phone555) /\ ~validatePhone(PhoneBad)

(* C17, as stated: validatePhone(s) is true exactly when the trimmed s is   *)
(* an optional leading '+' followed by 7 to 20 characters out of digits,    *)
(* space, dash, parentheses and period, with 7 to 15 digits among them;     *)
(* '+919876543210' and '555-0101' are accepted and 'abc' is rejected.        *)
ValidatePhoneSpaceOnly ==
    /\ \A str \in PhoneStrings \cup StoredPhones :
           validatePhone(str) = PhoneShape(str, {" "} \cup Punctuation)
    /\ ExamplesDecided

(* C17, amended: as above, the separators being every whitespace character  *)
(* (not the space alone), dash, parentheses and period.                     *)
ValidatePhoneExact ==
    /\ \A str \in PhoneStrings \cup StoredPhones :
           validatePhone(str) = PhoneShape(str, Whitespace \cup Punctuation)
    /\ ExamplesDecided

(* C17: updateContact has stored the phone '+919876543210' in a contact,    *)
(* and a text of 20 characters with 15 digits passes while the same text    *)
(* with one more separator or one more digit does not                        *)
ValidatePhoneExactWitness ==
    /\ \E i \in DOMAIN contacts : contacts[i].phone = PhoneIndia
    /\ validatePhone(Rep("5", 3) \o Rep("-", 5) \o Rep("5", 12))
    /\ ~validatePhone(Rep("5", 3) \o Rep("-", 6) \o Rep("5", 12))
    /\ ~validatePhone(Rep("5", 3) \o Rep("-", 1) \o Rep("5", 13))

(* At most one poll timer is active, and none once _pollTimer is null *)
SinglePollTimer ==
    /\ Cardinality(intervals) <= 1
    /\ pollTimer = 0 => intervals = {}

(* With the timer stopped a step starts no scan: no Notification, no alert  *)
(* cycle and no dispatched send is added                                     *)
StoppedTimerIdle ==
    pollTimer = 0 =>
        /\ notifications' = notifications
        /\ cycles' = cycles
        /\ Len(inflight') <= Len(inflight)

(* With the timer stopped, a step that takes a send out of the dispatched   *)
(* ones appends that send's AlertLogEntry and sets its contact's notifiedAt *)
InFlightCompletes ==
    (pollTimer = 0 /\ Len(inflight') < Len(inflight)) =>
        \E i \in DOMAIN inflight :
            /\ inflight' = RemoveAt(inflight, i)
            /\ Len(AlertLogs') = Len(AlertLogs) + 1
            /\ AlertLogs'[1].doseId = inflight[i].doseId
            /\ inflight[i].cb =>
                   \A k \in DOMAIN contacts :
                       contacts[k].id = inflight[i].contactId
                           => contacts'[k].notifiedAt = inflight[i].nowIso

(* C18: after stopPolling no timer-triggered scan occurs until startPolling *)
(* is called again, and at most one poll timer is active at any time;       *)
(* stopPolling cancels no dispatched send: each still completes, appends    *)
(* its AlertLogEntry and updates its contact's notifiedAt.                   *)
PollingContract == []SinglePollTimer /\ [][StoppedTimerIdle /\ InFlightCompletes]_vars

(* C19: the caregiver assignment round-trips in every reachable state, also *)
(* with a non-empty Audit Log: after assignCaregiver(p, c) with a user c,   *)
(* getAssignedCaregiver(p) is c (the caregiver the next scan of p alerts);  *)
(* after assignCaregiver(p, null) it is null; what getAssignedCaregiver     *)
(* gives for the other patients is unchanged.                                *)
CaregiverRoundTrip ==
    \A p \in ContactPatients, c \in CaregiverArgs :
        LET after == AssignCaregiverItem(undefinedItem, p, c) IN
        /\ GetAssignedCaregiverOf(after, p) = c
        /\ \A q \in ContactPatients \ {p} :
               GetAssignedCaregiverOf(after, q) = GetAssignedCaregiverOf(undefinedItem, q)

PendingDoses == {inflight[i].doseId : i \in DOMAIN inflight}

(* C20: a scan that starts while sends dispatched by an earlier scan are    *)
(* still pending (real-provider mode, the feed not cleared in between)      *)
(* fires no alert cycle, creates no Notification and dispatches no send for *)
(* a dose the earlier scan alerted.                                          *)
NoSecondAlertWhilePending ==
    \A p \in PatientArgs :
        LET r == DetectOutcome(p) IN
        \A d \in PendingDoses :
            /\ d \notin r.fired
            /\ \A k \in (Len(notifications) + 1)..Len(r.notifs) : r.notifs[k].doseId # d
            /\ \A k \in (Len(inflight) + 1)..Len(r.fly) : r.fly[k].doseId # d

(* C20: the send of one scan is still pending when a later scan has run and *)
(* dispatched a send for another dose only                                   *)
NoSecondAlertWhilePendingWitness ==
    \E i, j \in DOMAIN inflight :
        /\ inflight[i].doseId # inflight[j].doseId
        /\ inflight[i].nowIso < inflight[j].nowIso
        /\ \A k \in DOMAIN inflight : inflight[k].doseId = inflight[i].doseId => k = i
        /\ cycles[inflight[i].doseId] = 1

(* The step ran a scan that fired an alert cycle *)
ScanFired == cycles' # cycles

(* Every contact of the session's patient has an sms_sent Notification for  *)
(* every dose the step fired an alert cycle for                              *)
SmsSentPersisted ==
    \A d \in DoseIds : cycles'[d] # cycles[d] =>
        \A k \in DOMAIN contacts : contacts[k].patientId = SessionPatient =>
            \E n \in DOMAIN notifications' :
                /\ n > Len(notifications)
                /\ notifications'[n].type = NT.SMS_SENT
                /\ notifications'[n].doseId = d
                /\ notifications'[n].contactId = contacts[k].id

(* C21, as stated: in every provider mode detectMissedDoses returns with    *)
(* its sms_sent Notifications persisted before the AlertLogEntry of any     *)
(* send it dispatched is written and before a contact's notifiedAt is       *)
(* updated; the Notifications stay whatever the send's outcome.              *)
DetectionNeverWaits ==
    [][/\ ScanFired => (SmsSentPersisted /\ contacts' = contacts /\ AlertLogs' = AlertLogs)
       /\ Len(inflight') < Len(inflight) => notifications' = notifications]_vars

(* C21, amended: detectMissedDoses returns with its sms_sent Notifications  *)
(* persisted before a contact's notifiedAt is updated; in a real-provider   *)
(* mode also before the AlertLogEntry of any send it dispatched is written  *)
(* (every send of the scan is then still pending); the Notifications stay   *)
(* whatever the send's outcome.  In simulation mode the AlertLogEntry is    *)
(* written inside the scan.                                                  *)
DetectionDoesNotWait ==
    [][/\ ScanFired =>
            /\ SmsSentPersisted
            /\ contacts' = contacts
            /\ mode # "simulation" =>
                  /\ AlertLogs' = AlertLogs
                  /\ Len(inflight') = Len(inflight) + SendsOfScan(SessionPatient)
       /\ Len(inflight') < Len(inflight) => notifications' = notifications]_vars

(* C21: a send has failed after the scan returned, and the sms_sent         *)
(* Notification of its dose and contact is in the feed                       *)
DetectionDoesNotWaitWitness ==
    \E l \in DOMAIN AlertLogs, n \in DOMAIN notifications :
        /\ AlertLogs[l].deliveryStatus = STATUS.FAILED
        /\ AlertLogs[l].type = "emergency_contact"
        /\ notifications[n].type = NT.SMS_SENT
        /\ notifications[n].doseId = AlertLogs[l].doseId
        /\ notifications[n].contactId = AlertLogs[l].contactId
        /\ notifications[n].timestamp < AlertLogs[l].triggeredAt

(* In the scan's trace every Gateway invocation and every Audit Log write   *)
(* for a dose comes after the feed write of that dose                        *)
FeedBeforeGateway(t) ==
    \A i \in DOMAIN t : t[i].op \in {"send", "audit"} =>
        \E j \in 1..(i - 1) : t[j].op = "feed" /\ t[j].doseId = t[i].doseId

(* In the scan's trace the contact sends of a dose come before its          *)
(* caregiver send                                                            *)
ContactsBeforeCaregiver(t) ==
    \A i, j \in DOMAIN t :
        (/\ t[i].op = "send" /\ t[i].type = "emergency_contact"
         /\ t[j].op = "send" /\ t[j].type = "caregiver"
         /\ t[i].doseId = t[j].doseId) => i < j

(* Every AlertLogEntry's dose has a missed_dose Notification in the feed *)
LoggedDosesInFeed ==
    \A l \in DOMAIN AlertLogs :
        \E n \in DOMAIN notifications :
            notifications[n].type = NT.MISSED_DOSE /\ notifications[n].doseId = AlertLogs[l].doseId

(* C22: within one alert cycle the missed_dose Notification of the dose is  *)
(* appended to the feed before the Gateway is invoked for any contact, and  *)
(* the contact sends are invoked before the caregiver send; so no           *)
(* AlertLogEntry for a dose exists while the feed has no missed_dose        *)
(* Notification for that dose yet.                                           *)
AlertCycleOrder ==
    /\ \A p \in PatientArgs :
          /\ FeedBeforeGateway(DetectOutcome(p).trace)
          /\ ContactsBeforeCaregiver(DetectOutcome(p).trace)
    /\ LoggedDosesInFeed

(* The contacts the feed records a dispatched send for *)
DispatchedContacts ==
    {notifications[n].contactId : n \in {m \in DOMAIN notifications : notifications[m].type = NT.SMS_SENT}}

(* No send is pending and no completion callback is queued *)
AllSendsCompleted == inflight = <<>> /\ microtasks = <<>>

(* C23: once the send an alert cycle dispatched to an emergency contact has *)
(* completed, whatever its delivery status, the contact's notifiedAt is set *)
(* (the contact still existing); so when every dispatched send has          *)
(* completed, every contact a send was dispatched to has notifiedAt set.     *)
NotifiedAtAfterCompletion ==
    /\ [](AllSendsCompleted =>
            \A k \in DOMAIN contacts :
                contacts[k].id \in DispatchedContacts => contacts[k].notifiedAt # NoTime)
    /\ [][\A i \in DOMAIN inflight :
            (inflight' = RemoveAt(inflight, i) /\ inflight[i].cb) =>
                \A k \in DOMAIN contacts' :
                    contacts'[k].id = inflight[i].contactId => contacts'[k].notifiedAt # NoTime]_vars

(* The doses of p that are untaken, THRESHOLD or more overdue and without a *)
(* Notification, split by whether their Medication is on record              *)
Overdue(p) ==
    {i \in DOMAIN doses : /\ doses[i].patientId = p
                          /\ doses[i].takenAt = NoTime
                          /\ NoPriorNotification(doses[i])
                          /\ now - doses[i].scheduledTime >= thresholdMs}
Resolved(p) == {doses[i].id : i \in {j \in Overdue(p) : doses[j].medId \in meds}}
Unresolved(p) == {doses[i].id : i \in {j \in Overdue(p) : doses[j].medId \notin meds}}

(* The Notifications ns adds to the feed are those of full alert cycles,    *)
(* one for each dose of ds and for no other dose                             *)
FullCyclesFor(ns, p, ds) ==
    /\ \A n \in (Len(notifications) + 1)..Len(ns) : ns[n].doseId \in ds
    /\ \A d \in ds :
          /\ MissedDoseNotifs(SubSeq(ns, Len(notifications) + 1, Len(ns)), d) = 1
          /\ \A k \in DOMAIN contacts : contacts[k].patientId = p =>
                \E n \in (Len(notifications) + 1)..Len(ns) :
                    /\ ns[n].type = NT.SMS_SENT
                    /\ ns[n].doseId = d
                    /\ ns[n].contactId = contacts[k].id

SendsInTrace(t, d) == Cardinality({i \in DOMAIN t : t[i].op = "send" /\ t[i].doseId = d})

(* C24: a dose whose Medication cannot be resolved is skipped silently (no  *)
(* Notification, no send, not counted) and does not abort the scan: every   *)
(* other qualifying dose of the scan, before or after it in the store,      *)
(* gets its full alert cycle and is counted in the return value (both       *)
(* variants).                                                                *)
UnresolvedDoseSkipped ==
    /\ \A p \in PatientArgs \cap Users :
          LET r == DetectOutcome(p) IN
          /\ r.fired = Resolved(p)
          /\ r.newCount = Cardinality(Resolved(p))
          /\ FullCyclesFor(r.notifs, p, Resolved(p))
          /\ \A d \in Unresolved(p) : SendsInTrace(r.trace, d) = 0
          /\ \A d \in Resolved(p) :
                SendsInTrace(r.trace, d) = ContactCount(p) + (IF CaregiverOf(p) # NoId THEN 1 ELSE 0)
    /\ \A p \in PatientArgs :
          LET r == ScanDosesV1(ScanStart, p, 1) IN
          /\ r.fired = Resolved(p)
          /\ FullCyclesFor(r.notifs, p, Resolved(p))
          /\ ReturnedV1(r) >= Cardinality(Resolved(p))
          /\ Resolved(p) = {} => ReturnedV1(r) = 0

(* C24: one scan of p1 has alerted for d1 and for d2, which stand before    *)
(* and after d3 in the store, and d3, whose Medication is gone, has no      *)
(* Notification                                                              *)
UnresolvedDoseSkippedWitness ==
    /\ doses[3].id = "d3" /\ doses[3].medId \notin meds /\ doses[3].takenAt = NoTime
    /\ \E i, j \in DOMAIN notifications :
          /\ notifications[i].type = NT.MISSED_DOSE /\ notifications[i].doseId = "d1"
          /\ notifications[j].type = NT.MISSED_DOSE /\ notifications[j].doseId = "d2"
          /\ notifications[i].timestamp = notifications[j].timestamp
    /\ \A n \in DOMAIN notifications : notifications[n].doseId # "d3"
    /\ now - doses[3].scheduledTime >= thresholdMs

(* C25: a failure to write the audit entry (the Audit Log item cannot be    *)
(* read as a list) is not reported as a send failure: the send completes    *)
(* normally and the caller's completion handling, the notifiedAt update,    *)
(* still runs: queued by a send that completes inside the scan, run at once *)
(* by a send that completes later.                                           *)
AuditFailureContained ==
    /\ [](\A p \in PatientArgs \cap Users :
            (AuditThrows(undefinedItem) /\ mode = "simulation") =>
                Len(DetectOutcome(p).micro) =
                    Len(microtasks) + DetectOutcome(p).newCount * ContactCount(p))
    /\ [][\A i \in DOMAIN inflight :
            (AuditThrows(undefinedItem) /\ inflight' = RemoveAt(inflight, i) /\ inflight[i].cb) =>
                contacts' = ThenCallback(contacts, inflight[i].contactId, inflight[i].nowIso)]_vars

(* The entries of other patients than p keep their acknowledgedAt from logs *)
(* to after                                                                  *)
OthersUnacknowledged(logs, after, p) ==
    \A i \in DOMAIN logs : logs[i].patientId # p => after[i].acknowledgedAt = logs[i].acknowledgedAt

(* C26: acknowledgement is scoped to the given patient: acknowledgeLog(id,  *)
(* p) and acknowledgeAllLogs(p) never set acknowledgedAt on an              *)
(* AlertLogEntry whose patientId differs from p.                             *)
AcknowledgeScoped ==
    \A p \in ContactPatients :
        /\ \A l \in LogIdArgs :
              OthersUnacknowledged(AlertLogs, GetItemArray(AcknowledgeLogItem(undefinedItem, l, p, now)), p)
        /\ OthersUnacknowledged(AlertLogs, GetItemArray(AcknowledgeAllItem(undefinedItem, p, now)), p)

(* C27: a contact's notifiedAt never moves backwards: over any interleaving *)
(* of scans and send completions, each write to a contact's notifiedAt is   *)
(* greater than or equal to the value it replaces.                           *)
NotifiedAtMonotonic ==
    [][\A k \in DOMAIN contacts, j \in DOMAIN contacts' :
          contacts'[j].id = contacts[k].id => contacts'[j].notifiedAt >= contacts[k].notifiedAt]_vars

(* C28: the provider recorded in a send's AlertLogEntry (that of its        *)
(* result) is the provider mode selected when the send was initiated, even  *)
(* if setMode is called while the send is in flight and the send then       *)
(* fails.                                                                    *)
ProviderAtInitiation ==
    [][\A i \in DOMAIN inflight :
          (inflight' = RemoveAt(inflight, i) /\ Len(AlertLogs') = Len(AlertLogs) + 1) =>
              AlertLogs'[1].provider = inflight[i].branch]_vars

(* c2 is c1 but for notifiedAt *)
SameButNotifiedAt(c1, c2) == [c1 EXCEPT !.notifiedAt = c2.notifiedAt] = c2

(* C29: a send-completion callback changes only the notifiedAt field of its *)
(* own contact, in the contact store as it is at completion: the contact    *)
(* edits (updateContact, setPrimary, addContact) made since dispatch are    *)
(* preserved, the other contacts are unchanged, and a contact deleted       *)
(* before completion is not re-created.                                      *)
CallbackFrame ==
    [][/\ \A i \in DOMAIN inflight :
            inflight' = RemoveAt(inflight, i) =>
                /\ Len(contacts') = Len(contacts)
                /\ \A k \in DOMAIN contacts :
                      IF contacts[k].id = inflight[i].contactId /\ inflight[i].cb
                      THEN contacts'[k] = [contacts[k] EXCEPT !.notifiedAt = inflight[i].nowIso]
                      ELSE contacts'[k] = contacts[k]
       /\ (microtasks # <<>> /\ microtasks' = <<>>) =>
                /\ Len(contacts') = Len(contacts)
                /\ \A k \in DOMAIN contacts :
                      /\ SameButNotifiedAt(contacts[k], contacts'[k])
                      /\ contacts'[k] # contacts[k] =>
                            \E q \in DOMAIN microtasks :
                                /\ microtasks[q].contactId = contacts[k].id
                                /\ contacts'[k].notifiedAt = microtasks[q].nowIso]_vars

(* C29: after the sends of a scan were dispatched to c1 and c2, c1 was made *)
(* primary, c2 was deleted and c3 was added; the sends have completed: c1   *)
(* is primary with notifiedAt set, c2 is gone and c3 has no notifiedAt       *)
CallbackFrameWitness ==
    /\ inflight = <<>>
    /\ \E k \in DOMAIN contacts :
          contacts[k].id = "c1" /\ contacts[k].isPrimary /\ contacts[k].notifiedAt # NoTime
    /\ \A k \in DOMAIN contacts : contacts[k].id # "c2"
    /\ \E k \in DOMAIN contacts : contacts[k].id = "c3" /\ contacts[k].notifiedAt = NoTime
    /\ \E l \in DOMAIN AlertLogs :
          AlertLogs[l].contactId = "c2" /\ AlertLogs[l].provider = "fast2sms"

(* The doses of the session's patient that have a scheduled time and a      *)
(* Medication on record                                                      *)
AlertableDoses ==
    {i \in DOMAIN doses : /\ doses[i].patientId = SessionPatient
                          /\ doses[i].scheduledTime # NoTime
                          /\ doses[i].medId \in meds}

HasMissedDoseNotification(d) ==
    \E n \in DOMAIN notifications :
        notifications[n].type = NT.MISSED_DOSE /\ notifications[n].doseId = d

(* A dose marked taken before it was THRESHOLD overdue has no Notification *)
TakenInTimeNeverAlerted ==
    \A i \in DOMAIN doses :
        (doses[i].takenAt # NoTime /\ doses[i].takenAt - doses[i].scheduledTime < thresholdMs)
            => (cycles[doses[i].id] = 0 /\ ~HasMissedDoseNotification(doses[i].id))

(* C30: while polling is active for the patient and the clock keeps         *)
(* advancing, every dose of the patient with a scheduled time and a         *)
(* Medication on record that stays untaken eventually has a missed_dose     *)
(* Notification; a dose marked taken before it becomes THRESHOLD overdue    *)
(* never gets one.                                                           *)
AlertLiveness ==
    /\ []TakenInTimeNeverAlerted
    /\ \A i \in 1..Len(InitDoses) :
          (i \in AlertableDoses /\ pollTimer # 0 /\ doses[i].takenAt = NoTime)
              ~> (\/ HasMissedDoseNotification(doses[i].id)
                  \/ doses[i].takenAt # NoTime
                  \/ pollTimer = 0)

(* C30: with polling active, d1 stayed untaken and has its missed_dose      *)
(* Notification; d2 was marked taken in time, is now past THRESHOLD and has *)
(* none                                                                      *)
AlertLivenessWitness ==
    /\ pollTimer # 0
    /\ doses[1].takenAt = NoTime /\ HasMissedDoseNotification(doses[1].id)
    /\ doses[2].takenAt # NoTime
    /\ doses[2].takenAt - doses[2].scheduledTime < thresholdMs
    /\ now - doses[2].scheduledTime >= thresholdMs
    /\ ~HasMissedDoseNotification(doses[2].id)

====
